---- MODULE Spec2Model ----
(***************************************************************************)
(* StudyOS MCP server: the tool registry, the zod input schemas, the       *)
(* forwardToBackend gateway, the three tool handlers, the static manifest  *)
(* and the Express POST endpoint of src/src/server.ts (and the earlier     *)
(* variant kept in src/unnamed/part_000).                                  *)
(*                                                                         *)
(* Three specifications share the module:                                  *)
(*   SpecValidate  the zod schemas applied to raw argument objects         *)
(*   Spec          one tools/call invocation after another through         *)
(*                 lookup, validation, handler and forwardToBackend        *)
(*   SpecHttp      concurrent POSTs against the one shared McpServer       *)
(***************************************************************************)
EXTENDS Integers, Sequences, FiniteSets, TLC

VARIABLES
  \* ---- SpecValidate: one schema parse
  vtool,          \* the tool whose inputSchema is applied
  vraw,           \* the raw argument object
  vedits,         \* how many fields of vraw the caller has set
  vout,           \* the parse result, once parsed
  \* ---- Spec: the dispatch of tools/call requests
  BACKEND_URL,    \* process.env.STUDYOS_BACKEND_URL ?? ""
  pc,             \* where the invocation in progress stands
  toolName,       \* params.name of the invocation
  rawArguments,   \* params.arguments of the invocation
  args,           \* the parsed arguments handed to the handler
  handlerCalls,   \* how often a registered handler was entered
  fetches,        \* the outbound requests issued, in order
  res,            \* the collaborator's answer to the fetch
  thrown,         \* what forwardToBackend threw, if it threw
  returned,       \* what forwardToBackend returned, if it returned
  results,        \* the tool results the invocation produced
  errors,         \* the errors the invocation produced
  served,         \* the outcomes of the invocations completed so far
  \* ---- SpecHttp: the Express endpoint and the shared server
  endpoint,       \* which variant of the POST route is deployed
  serverTransport,\* the transport the shared McpServer is connected to
  hpc,            \* per request: where the route handler stands
  headersSent,    \* per request: res.headersSent
  written,        \* per request: HTTP responses written
  fallbacks,      \* per request: calls of res.status(500).json(...)
  unhandled       \* per request: the route's promise rejected

vvars == <<vtool, vraw, vedits, vout>>
dvars == <<BACKEND_URL, pc, toolName, rawArguments, args, handlerCalls,
           fetches, res, thrown, returned, results, errors, served>>
hvars == <<endpoint, serverTransport, hpc, headersSent, written, fallbacks,
           unhandled>>
vars == <<vvars, dvars, hvars>>

(***************************************************************************)
(* Bounds of the model.                                                    *)
(***************************************************************************)
MaxEdits == 2         \* fields a caller changes in a raw argument object
MaxInvocations == 2   \* invocations dispatched one after another
NumRequests == 2      \* POSTs in flight together

(***************************************************************************)
(* JSON values.  Every value is a record [type, v] with v a string, so     *)
(* that values of different JSON types can be told apart.  A number is     *)
(* kept as its literal; the code never computes with one.                  *)
(***************************************************************************)
Undefined == [type |-> "undefined", v |-> ""]
Null == [type |-> "null", v |-> ""]
Str(s) == [type |-> "string", v |-> s]
Num(s) == [type |-> "number", v |-> s]
\* An array is abstracted to the JSON type of its elements.
Arr(elems) == [type |-> "array", v |-> elems]

Values ==
  {Undefined, Null, Str("Newton's laws..."), Str("success"), Str("maybe"),
   Num("5"), Arr("string"), Arr("number")}

(***************************************************************************)
(* zod schemas.  A field is [base, options, nullable, optional, default]:  *)
(* z.string().nullable().optional() is NullableOptional("string"),         *)
(* z.number().optional().default(8) is OptionalDefault("number", Num("8")).*)
(***************************************************************************)
NoOptions == {}
OutcomeOptions == {"success", "fail"}

Required(base, options) ==
  [base |-> base, options |-> options, nullable |-> FALSE,
   optional |-> FALSE, default |-> Undefined]
NullableOptional(base, options) ==
  [base |-> base, options |-> options, nullable |-> TRUE,
   optional |-> TRUE, default |-> Undefined]
OptionalDefault(base, d) ==
  [base |-> base, options |-> NoOptions, nullable |-> FALSE,
   optional |-> TRUE, default |-> d]

ingestInput ==
  [course |-> NullableOptional("string", NoOptions),
   type |-> NullableOptional("string", NoOptions),
   subtopic |-> NullableOptional("string", NoOptions),
   assignment_type |-> NullableOptional("string", NoOptions),
   source_name |-> NullableOptional("string", NoOptions),
   raw_text |-> Required("string", NoOptions),
   original_prompt |-> NullableOptional("string", NoOptions),
   model_answer |-> NullableOptional("string", NoOptions),
   outcome |-> NullableOptional("enum", OutcomeOptions),
   score |-> NullableOptional("number", NoOptions),
   teacher_feedback |-> NullableOptional("string", NoOptions)]

searchInput ==
  [course |-> NullableOptional("string", NoOptions),
   query |-> Required("string", NoOptions),
   types |-> NullableOptional("array", NoOptions),
   subtopic |-> NullableOptional("string", NoOptions),
   assignment_type |-> NullableOptional("string", NoOptions),
   top_k |-> OptionalDefault("number", Num("8")),
   threshold |-> OptionalDefault("number", Num("0.3"))]

\* logInput.outcome as a plain z.string().
LogOutcomeAnyString == Required("string", NoOptions)

LogOutcome == Required("enum", OutcomeOptions)

logInput ==
  [course |-> NullableOptional("string", NoOptions),
   assignment_type |-> NullableOptional("string", NoOptions),
   subtopic |-> NullableOptional("string", NoOptions),
   original_prompt |-> Required("string", NoOptions),
   model_answer |-> Required("string", NoOptions),
   outcome |-> LogOutcome,
   score |-> NullableOptional("number", NoOptions),
   teacher_feedback |-> NullableOptional("string", NoOptions)]

(***************************************************************************)
(* The registry: the three server.registerTool calls.                      *)
(***************************************************************************)
RegisteredTools == {"ingest_content", "search_content", "log_completion_result"}

InputSchema(name) ==
  CASE name = "ingest_content" -> ingestInput
    [] name = "search_content" -> searchInput
    [] name = "log_completion_result" -> logInput

HandlerPath(name) ==
  CASE name = "ingest_content" -> "/ingest_content"
    [] name = "search_content" -> "/search_content"
    [] name = "log_completion_result" -> "/log_completion_result"

HandlerText(name) ==
  CASE name = "ingest_content" ->
         "I saved this content into your StudyOS knowledge base."
    [] name = "search_content" ->
         "Here are the most relevant chunks I found in your StudyOS knowledge base."
    [] name = "log_completion_result" ->
         "I logged this assignment outcome so I can learn from it in the future."

\* Every key a caller may send: the schemas' fields and "content", the
\* name the earlier variant used for raw_text, which no schema here knows.
AllFields ==
  DOMAIN ingestInput \cup DOMAIN searchInput \cup DOMAIN logInput \cup {"content"}

NoArguments == [f \in AllFields |-> Undefined]

(***************************************************************************)
(* Parsing one field, outermost wrapper first: .default() replaces an      *)
(* absent value and hands anything else to the inner schema; .optional()   *)
(* accepts an absent value; .nullable() accepts null; then the base type.  *)
(***************************************************************************)
BaseAccepts(field, value) ==
  CASE field.base = "string" -> value.type = "string"
    [] field.base = "number" -> value.type = "number"
    [] field.base = "enum" -> value.type = "string" /\ value.v \in field.options
    [] field.base = "array" -> value.type = "array" /\ value.v \in {"", "string"}

\* ParseField with .default() also replacing an explicit null.
ParseFieldDefaultAlsoOnNull(field, value) ==
  IF field.default # Undefined /\ value \in {Undefined, Null}
  THEN [ok |-> TRUE, value |-> field.default]
  ELSE IF field.optional /\ value = Undefined THEN [ok |-> TRUE, value |-> Undefined]
  ELSE IF field.nullable /\ value = Null THEN [ok |-> TRUE, value |-> Null]
  ELSE [ok |-> BaseAccepts(field, value), value |-> value]

ParseField(field, value) ==
  IF field.default # Undefined /\ value = Undefined
  THEN [ok |-> TRUE, value |-> field.default]
  ELSE IF field.optional /\ value = Undefined THEN [ok |-> TRUE, value |-> Undefined]
  ELSE IF field.nullable /\ value = Null THEN [ok |-> TRUE, value |-> Null]
  ELSE [ok |-> BaseAccepts(field, value), value |-> value]

\* z.object(...).safeParse(raw): every offending field is reported; unknown
\* keys are stripped; data holds the schema's fields only.
SafeParse(schema, raw) ==
  LET issues == {f \in DOMAIN schema : ~ParseField(schema[f], raw[f]).ok}
  IN [success |-> issues = {},
      issues |-> issues,
      data |-> [f \in AllFields |->
                  IF f \in DOMAIN schema /\ issues = {}
                  THEN ParseField(schema[f], raw[f]).value
                  ELSE Undefined]]

NotParsed == [success |-> FALSE, issues |-> {"(not parsed)"}, data |-> NoArguments]

(***************************************************************************)
(* SpecValidate: a caller builds a raw argument object for a registered    *)
(* tool and the tool's inputSchema is applied to it.                       *)
(***************************************************************************)
VIdle ==
  /\ vtool = "ingest_content" /\ vraw = NoArguments /\ vedits = 0
  /\ vout = NotParsed

DIdle ==
  /\ BACKEND_URL = "" /\ pc = "idle" /\ toolName = "" /\ rawArguments = NoArguments
  /\ args = NoArguments /\ handlerCalls = 0 /\ fetches = <<>>
  /\ res = [settled |-> FALSE, rejected |-> FALSE, status |-> 0, body |-> "", readable |-> TRUE]
  /\ thrown = <<>> /\ returned = <<>> /\ results = <<>> /\ errors = <<>>
  /\ served = <<>>

HIdle ==
  /\ endpoint = "/mcp" /\ serverTransport = 0
  /\ hpc = [r \in 1..NumRequests |-> "idle"]
  /\ headersSent = [r \in 1..NumRequests |-> FALSE]
  /\ written = [r \in 1..NumRequests |-> 0]
  /\ fallbacks = [r \in 1..NumRequests |-> 0]
  /\ unhandled = [r \in 1..NumRequests |-> FALSE]

VInit ==
  /\ vtool \in RegisteredTools
  /\ vraw = NoArguments
  /\ vedits = 0
  /\ vout = NotParsed
  /\ DIdle /\ HIdle

SetField(f, value) ==
  /\ vout = NotParsed
  /\ vedits < MaxEdits
  /\ vraw' = [vraw EXCEPT ![f] = value]
  /\ vedits' = vedits + 1
  /\ UNCHANGED <<vtool, vout, dvars, hvars>>

Parse ==
  /\ vout = NotParsed
  /\ vout' = SafeParse(InputSchema(vtool), vraw)
  /\ UNCHANGED <<vtool, vraw, vedits, dvars, hvars>>

VNext ==
  \/ \E f \in DOMAIN InputSchema(vtool) \cup {"content"} : \E value \in Values :
       SetField(f, value)
  \/ Parse

SpecValidate == VInit /\ [][VNext]_vars

(***************************************************************************)
(* The static manifest served at /.well-known/mcp.json, as written in the  *)
(* source, and the same shape derived from a zod schema.  A property is     *)
(* [type, nullable]; z.enum is a string in JSON-schema terms.               *)
(***************************************************************************)
Prop(type, nullable) == [type |-> type, nullable |-> nullable]

manifest(name) ==
  CASE name = "ingest_content" ->
         [properties |->
            [raw_text |-> Prop("string", FALSE),
             course |-> Prop("string", TRUE),
             type |-> Prop("string", TRUE),
             subtopic |-> Prop("string", TRUE),
             assignment_type |-> Prop("string", TRUE),
             source_name |-> Prop("string", TRUE)],
          required |-> {"raw_text"}]
    [] name = "search_content" ->
         [properties |->
            [query |-> Prop("string", FALSE),
             course |-> Prop("string", TRUE),
             types |-> Prop("array", FALSE),
             subtopic |-> Prop("string", TRUE),
             assignment_type |-> Prop("string", TRUE),
             top_k |-> Prop("number", FALSE),
             threshold |-> Prop("number", FALSE)],
          required |-> {"query"}]
    [] name = "log_completion_result" ->
         [properties |->
            [original_prompt |-> Prop("string", FALSE),
             model_answer |-> Prop("string", FALSE),
             outcome |-> Prop("string", FALSE),
             course |-> Prop("string", TRUE),
             assignment_type |-> Prop("string", TRUE),
             subtopic |-> Prop("string", TRUE),
             score |-> Prop("number", FALSE),
             teacher_feedback |-> Prop("string", TRUE)],
          required |-> {"original_prompt", "model_answer", "outcome"}]

JsonSchemaOf(schema) ==
  [properties |->
     [f \in DOMAIN schema |->
        Prop(IF schema[f].base = "enum" THEN "string" ELSE schema[f].base,
             schema[f].nullable)],
   required |-> {f \in DOMAIN schema : ~schema[f].optional}]

SameSchema(a, b) ==
  /\ DOMAIN a.properties = DOMAIN b.properties
  /\ \A f \in DOMAIN a.properties \cap DOMAIN b.properties :
       a.properties[f] = b.properties[f]
  /\ a.required = b.required

(***************************************************************************)
(* Spec: tools/call requests dispatched one after another.  The handlers,  *)
(* the schemas and forwardToBackend are the source's.  The steps around    *)
(* them (the lookup among the registered names, the schema applied before  *)
(* the handler runs, an exception of the handler reported as a failed      *)
(* execution) are the McpServer's, which the source only calls; they       *)
(* follow the dispatcher's state machine: Lookup, Validate, Execute,       *)
(* Assemble, terminal at the first that applies.                           *)
(***************************************************************************)
ConfiguredUrl == "https://studyos.example"

ToolNames == RegisteredTools \cup {"delete_everything"}

With(raw, f, value) == [raw EXCEPT ![f] = value]

\* The argument objects callers send in this specification.
SampleArguments(name) ==
  CASE name = "ingest_content" ->
         {With(NoArguments, "raw_text", Str("Newton's laws...")),
          With(NoArguments, "content", Str("Newton's laws...")),
          NoArguments}
    [] name = "search_content" ->
         {With(NoArguments, "query", Str("photosynthesis")),
          With(With(NoArguments, "query", Str("photosynthesis")), "top_k", Null)}
    [] name = "log_completion_result" ->
         {With(With(With(NoArguments, "original_prompt", Str("p")),
                    "model_answer", Str("a")), "outcome", Str("success")),
          With(With(With(NoArguments, "original_prompt", Str("p")),
                    "model_answer", Str("a")), "outcome", Str("maybe"))}
    [] OTHER -> {NoArguments}

\* The collaborator's answers: a status, a body, and whether the body
\* stream can be read to its end.
Statuses == {200, 204, 404, 500}
Bodies == {"{\"id\": 42}", "db error", ""}
Ok(status) == status >= 200 /\ status <= 299

NoResponse ==
  [settled |-> FALSE, rejected |-> FALSE, status |-> 0, body |-> "",
   readable |-> TRUE]

\* JSON.parse on the bodies above; an object is its key/value pairs.
JSONParse(body) ==
  IF body = "{\"id\": 42}"
  THEN [ok |-> TRUE, value |-> {<<"id", "42">>}]
  ELSE [ok |-> FALSE, value |-> {}]

\* JSON.stringify(args): keys whose value is undefined are left out.
JSONStringify(a) == {<<f, a[f]>> : f \in {g \in DOMAIN a : a[g] # Undefined}}

Error(name, message) == [name |-> name, message |-> message]

ToolError(kind, message, details) ==
  [kind |-> kind, message |-> message, details |-> details]

Outcome(name, outcome, status) ==
  [tool |-> name, outcome |-> outcome, status |-> status]

DInit ==
  /\ BACKEND_URL \in {"", ConfiguredUrl}
  /\ pc = "idle" /\ toolName = "" /\ rawArguments = NoArguments
  /\ args = NoArguments /\ handlerCalls = 0 /\ fetches = <<>>
  /\ res = NoResponse
  /\ thrown = <<>> /\ returned = <<>> /\ results = <<>> /\ errors = <<>>
  /\ served = <<>>
  /\ VIdle /\ HIdle

\* A tools/call request reaches the server.
Arrive(name, raw) ==
  /\ pc \in {"idle", "done"}
  /\ Len(served) < MaxInvocations
  /\ pc' = "lookup"
  /\ toolName' = name
  /\ rawArguments' = raw
  /\ args' = NoArguments /\ handlerCalls' = 0 /\ fetches' = <<>>
  /\ res' = NoResponse /\ thrown' = <<>> /\ returned' = <<>>
  /\ results' = <<>> /\ errors' = <<>>
  /\ UNCHANGED <<BACKEND_URL, served, vvars, hvars>>

\* The registry is asked for the tool.
Lookup ==
  /\ pc = "lookup"
  /\ IF toolName \in RegisteredTools
     THEN /\ pc' = "validate"
          /\ UNCHANGED <<errors, served>>
     ELSE /\ pc' = "done"
          /\ errors' = Append(errors,
                 ToolError("unknown-tool", <<"Tool ", toolName, " not found">>, {}))
          /\ served' = Append(served, Outcome(toolName, "unknown-tool", 0))
  /\ UNCHANGED <<BACKEND_URL, toolName, rawArguments, args, handlerCalls,
                 fetches, res, thrown, returned, results, vvars, hvars>>

\* The tool's inputSchema is applied to the raw arguments.
Validate ==
  /\ pc = "validate"
  /\ LET parsed == SafeParse(InputSchema(toolName), rawArguments)
     IN IF parsed.success
        THEN /\ pc' = "handler"
             /\ args' = parsed.data
             /\ UNCHANGED <<errors, served>>
        ELSE /\ pc' = "done"
             /\ args' = args
             /\ errors' = Append(errors,
                    ToolError("invalid-arguments", <<"Invalid arguments for tool ", toolName>>,
                              parsed.issues))
             /\ served' = Append(served, Outcome(toolName, "invalid-arguments", 0))
  /\ UNCHANGED <<BACKEND_URL, toolName, rawArguments, handlerCalls, fetches,
                 res, thrown, returned, results, vvars, hvars>>

\* The registered handler is entered and calls forwardToBackend(path, args).
Handler ==
  /\ pc = "handler"
  /\ handlerCalls' = handlerCalls + 1
  /\ pc' = "forward"
  /\ UNCHANGED <<BACKEND_URL, toolName, rawArguments, args, fetches, res,
                 thrown, returned, results, errors, served, vvars, hvars>>

\* Forward without the BACKEND_URL check.
ForwardFetchesUnconfigured ==
  /\ pc = "forward"
  /\ fetches' = Append(fetches,
         [url |-> <<BACKEND_URL, HandlerPath(toolName)>>, method |-> "POST",
          body |-> JSONStringify(args)])
  /\ pc' = "fetching"
  /\ UNCHANGED <<BACKEND_URL, toolName, rawArguments, args, handlerCalls, res,
                 thrown, returned, results, errors, served, vvars, hvars>>

\* forwardToBackend up to its first await: the BACKEND_URL check, then fetch.
Forward ==
  /\ pc = "forward"
  /\ IF BACKEND_URL = ""
     THEN /\ thrown' = <<Error("Error", <<"STUDYOS_BACKEND_URL is not set">>)>>
          /\ pc' = "settled"
          /\ UNCHANGED fetches
     ELSE /\ fetches' = Append(fetches,
                 [url |-> <<BACKEND_URL, HandlerPath(toolName)>>, method |-> "POST",
                  body |-> JSONStringify(args)])
          /\ pc' = "fetching"
          /\ UNCHANGED thrown
  /\ UNCHANGED <<BACKEND_URL, toolName, rawArguments, args, handlerCalls, res,
                 returned, results, errors, served, vvars, hvars>>

\* The connection cannot be established or is reset: fetch rejects, and
\* nothing in forwardToBackend catches it.
FetchRejects ==
  /\ pc = "fetching"
  /\ res' = [NoResponse EXCEPT !.settled = TRUE, !.rejected = TRUE]
  /\ thrown' = <<Error("TypeError", <<"fetch failed">>)>>
  /\ pc' = "settled"
  /\ UNCHANGED <<BACKEND_URL, toolName, rawArguments, args, handlerCalls,
                 fetches, returned, results, errors, served, vvars, hvars>>

\* The collaborator answers; res.ok decides which body read follows.
FetchResolves(status, body, readable) ==
  /\ pc = "fetching"
  /\ res' = [settled |-> TRUE, rejected |-> FALSE, status |-> status,
             body |-> body, readable |-> readable]
  /\ pc' = IF Ok(status) THEN "json" ELSE "text"
  /\ UNCHANGED <<BACKEND_URL, toolName, rawArguments, args, handlerCalls,
                 fetches, thrown, returned, results, errors, served, vvars, hvars>>

\* ReadText without the body text.
ReadTextDropsBody ==
  /\ pc = "text"
  /\ thrown' = <<Error("Error",
         <<"Backend ", HandlerPath(toolName), " failed: ", ToString(res.status),
           " ", "">>)>>
  /\ pc' = "settled"
  /\ UNCHANGED <<BACKEND_URL, toolName, rawArguments, args, handlerCalls,
                 fetches, res, returned, results, errors, served, vvars, hvars>>

\* !res.ok: await res.text().catch(() => ""), then throw.
ReadText ==
  /\ pc = "text"
  /\ LET text == IF res.readable THEN res.body ELSE ""
     IN thrown' = <<Error("Error",
            <<"Backend ", HandlerPath(toolName), " failed: ", ToString(res.status),
              " ", text>>)>>
  /\ pc' = "settled"
  /\ UNCHANGED <<BACKEND_URL, toolName, rawArguments, args, handlerCalls,
                 fetches, res, returned, results, errors, served, vvars, hvars>>

\* ReadJson without the catch.
ReadJsonRethrows ==
  /\ pc = "json"
  /\ LET parsed == JSONParse(res.body)
     IN IF res.readable /\ parsed.ok
        THEN returned' = <<parsed.value>> /\ UNCHANGED thrown
        ELSE thrown' = <<Error("SyntaxError", <<"Unexpected token">>)>>
             /\ UNCHANGED returned
  /\ pc' = "settled"
  /\ UNCHANGED <<BACKEND_URL, toolName, rawArguments, args, handlerCalls,
                 fetches, res, results, errors, served, vvars, hvars>>

\* res.ok: try { return await res.json() } catch { return { ok: true } }.
ReadJson ==
  /\ pc = "json"
  /\ LET parsed == JSONParse(res.body)
     IN returned' = <<IF res.readable /\ parsed.ok THEN parsed.value
                      ELSE {<<"ok", "true">>}>>
  /\ pc' = "settled"
  /\ UNCHANGED <<BACKEND_URL, toolName, rawArguments, args, handlerCalls,
                 fetches, res, thrown, results, errors, served, vvars, hvars>>

\* HandlerSettles with a handler that swallows the exception.
HandlerSettlesDropsError ==
  /\ pc = "settled"
  /\ IF thrown = <<>>
     THEN /\ results' = Append(results,
                 [structuredContent |-> returned[1],
                  content |-> <<[type |-> "text", text |-> HandlerText(toolName)]>>])
          /\ served' = Append(served, Outcome(toolName, "result", res.status))
     ELSE /\ results' = results
          /\ served' = Append(served, Outcome(toolName, "execution-failure", res.status))
  /\ errors' = errors
  /\ pc' = "done"
  /\ UNCHANGED <<BACKEND_URL, toolName, rawArguments, args, handlerCalls,
                 fetches, res, thrown, returned, vvars, hvars>>

\* forwardToBackend has settled.  A return value becomes the handler's
\* result; an exception passes through the handler, which catches nothing,
\* and the server reports it as a failed execution.
HandlerSettles ==
  /\ pc = "settled"
  /\ IF thrown = <<>>
     THEN /\ results' = Append(results,
                 [structuredContent |-> returned[1],
                  content |-> <<[type |-> "text", text |-> HandlerText(toolName)]>>])
          /\ served' = Append(served, Outcome(toolName, "result", res.status))
          /\ UNCHANGED errors
     ELSE /\ errors' = Append(errors,
                 ToolError("execution-failure", thrown[1].message, {}))
          /\ served' = Append(served, Outcome(toolName, "execution-failure", res.status))
          /\ UNCHANGED results
  /\ pc' = "done"
  /\ UNCHANGED <<BACKEND_URL, toolName, rawArguments, args, handlerCalls,
                 fetches, res, thrown, returned, vvars, hvars>>

Next ==
  \/ \E name \in ToolNames : \E raw \in SampleArguments(name) : Arrive(name, raw)
  \/ Lookup
  \/ Validate
  \/ Handler
  \/ Forward
  \/ FetchRejects
  \/ \E status \in Statuses : \E body \in Bodies : \E readable \in BOOLEAN :
       FetchResolves(status, body, readable)
  \/ ReadText
  \/ ReadJson
  \/ HandlerSettles

Spec == DInit /\ [][Next]_vars

(***************************************************************************)
(* SpecHttp: POSTs to the MCP endpoint.  Each request makes its own        *)
(* StreamableHTTPServerTransport and connects the one module-level server  *)
(* to it.  The route is app.post("/mcp") of server.ts or app.post("/") of  *)
(* the earlier variant; they differ in the catch block only.  Express's    *)
(* res.json throws once the headers of res have been sent, and an          *)
(* exception leaving an async route is a rejected promise nobody handles.  *)
(***************************************************************************)
Requests == 1..NumRequests
NoTransport == 0

HInit ==
  /\ endpoint \in {"/mcp", "/"}
  /\ serverTransport = NoTransport
  /\ hpc = [r \in Requests |-> "idle"]
  /\ headersSent = [r \in Requests |-> FALSE]
  /\ written = [r \in Requests |-> 0]
  /\ fallbacks = [r \in Requests |-> 0]
  /\ unhandled = [r \in Requests |-> FALSE]
  /\ VIdle /\ DIdle

\* The route is entered: const transport = new StreamableHTTPServerTransport().
Post(r) ==
  /\ hpc[r] = "idle"
  /\ hpc' = [hpc EXCEPT ![r] = "connect"]
  /\ UNCHANGED <<endpoint, serverTransport, headersSent, written, fallbacks,
                 unhandled, vvars, dvars>>

\* await server.connect(transport): the shared server now holds r's transport.
Connect(r) ==
  /\ hpc[r] = "connect"
  /\ serverTransport' = r
  /\ hpc' = [hpc EXCEPT ![r] = "handle"]
  /\ UNCHANGED <<endpoint, headersSent, written, fallbacks, unhandled, vvars,
                 dvars>>

\* transport.handleRequest writes the response of the dispatched message.
HandleWrites(r) ==
  /\ hpc[r] = "handle"
  /\ ~headersSent[r]
  /\ headersSent' = [headersSent EXCEPT ![r] = TRUE]
  /\ written' = [written EXCEPT ![r] = @ + 1]
  /\ hpc' = [hpc EXCEPT ![r] = "written"]
  /\ UNCHANGED <<endpoint, serverTransport, fallbacks, unhandled, vvars, dvars>>

\* transport.handleRequest returns.
HandleReturns(r) ==
  /\ hpc[r] = "written"
  /\ hpc' = [hpc EXCEPT ![r] = "returned"]
  /\ UNCHANGED <<endpoint, serverTransport, headersSent, written, fallbacks,
                 unhandled, vvars, dvars>>

\* transport.handleRequest throws, before or after it wrote a response.
HandleThrows(r) ==
  /\ hpc[r] \in {"handle", "written"}
  /\ hpc' = [hpc EXCEPT ![r] = "catch"]
  /\ UNCHANGED <<endpoint, serverTransport, headersSent, written, fallbacks,
                 unhandled, vvars, dvars>>

\* res.status(500).json({ error: "MCP transport error" }).
SendFallback(r) ==
  /\ fallbacks' = [fallbacks EXCEPT ![r] = @ + 1]
  /\ IF headersSent[r]
     THEN /\ unhandled' = [unhandled EXCEPT ![r] = TRUE]
          /\ UNCHANGED <<headersSent, written>>
     ELSE /\ headersSent' = [headersSent EXCEPT ![r] = TRUE]
          /\ written' = [written EXCEPT ![r] = @ + 1]
          /\ UNCHANGED unhandled

\* The catch block of the earlier variant, for either route.
CatchUnguarded(r) ==
  /\ hpc[r] = "catch"
  /\ SendFallback(r)
  /\ hpc' = [hpc EXCEPT ![r] = "caught"]
  /\ UNCHANGED <<endpoint, serverTransport, vvars, dvars>>

\* The catch block: server.ts sends the fallback only if (!res.headersSent);
\* the earlier variant sends it whenever handleRequest threw.
Catch(r) ==
  /\ hpc[r] = "catch"
  /\ IF endpoint = "/mcp" /\ headersSent[r]
     THEN UNCHANGED <<headersSent, written, fallbacks, unhandled>>
     ELSE SendFallback(r)
  /\ hpc' = [hpc EXCEPT ![r] = "caught"]
  /\ UNCHANGED <<endpoint, serverTransport, vvars, dvars>>

HNext ==
  \E r \in Requests :
    \/ Post(r)
    \/ Connect(r)
    \/ HandleWrites(r)
    \/ HandleReturns(r)
    \/ HandleThrows(r)
    \/ Catch(r)

SpecHttp == HInit /\ [][HNext]_vars

(***************************************************************************)
(* Properties.                                                             *)
(***************************************************************************)
Outcomes == Len(results) + Len(errors)
Rejected == res.settled /\ ~res.rejected /\ ~Ok(res.status)
Accepted == res.settled /\ ~res.rejected /\ Ok(res.status)
Acknowledgment == {<<"ok", "true">>}
CanArrive ==
  ENABLED (\E name \in ToolNames : \E raw \in SampleArguments(name) : Arrive(name, raw))

\* C1: an invocation produces no outcome before it ends and, once it has
\* ended, exactly one: one tool result or one error, never both, never none.
C1_ExactlyOneOutcome ==
  /\ Outcomes <= 1
  /\ pc = "done" => Outcomes = 1
  /\ pc \notin {"idle", "done"} => Outcomes = 0

C1_Witness ==
  /\ pc = "done" /\ handlerCalls = 1
  /\ results = <<>> /\ Len(errors) = 1
  /\ errors[1].kind = "execution-failure"

\* C2: an invocation of an unregistered tool, or one whose arguments the
\* tool's schema rejects (log_completion_result with outcome "maybe" among
\* them), never enters a handler and never issues an outbound request, and
\* ends in an unknown-tool or an invalid-arguments error respectively.
C2_LocalFailuresStayLocal ==
  /\ (pc # "idle" /\ toolName \notin RegisteredTools) =>
       /\ handlerCalls = 0 /\ fetches = <<>>
       /\ pc = "done" =>
            /\ results = <<>> /\ Len(errors) = 1
            /\ errors[1].kind = "unknown-tool"
  /\ (toolName \in RegisteredTools
        /\ ~SafeParse(InputSchema(toolName), rawArguments).success) =>
       /\ handlerCalls = 0 /\ fetches = <<>>
       /\ pc = "done" =>
            /\ results = <<>> /\ Len(errors) = 1
            /\ errors[1].kind = "invalid-arguments"
            /\ errors[1].details =
                 SafeParse(InputSchema(toolName), rawArguments).issues
  /\ (toolName = "log_completion_result" /\ rawArguments["outcome"] = Str("maybe")) =>
       /\ handlerCalls = 0 /\ fetches = <<>>
       /\ pc = "done" =>
            /\ Len(errors) = 1
            /\ errors[1].kind = "invalid-arguments"
            /\ "outcome" \in errors[1].details

C2_Witness ==
  /\ pc = "done" /\ toolName = "log_completion_result"
  /\ rawArguments["outcome"] = Str("maybe")
  /\ Len(errors) = 1 /\ errors[1].details = {"outcome"}
  /\ handlerCalls = 0 /\ fetches = <<>>

\* C3: one call of forwardToBackend issues no outbound request when
\* BACKEND_URL is empty, failing with the unconfigured error, and exactly
\* one otherwise, whatever becomes of that request.
C3_OneRequestPerCall ==
  /\ Len(fetches) <= 1
  /\ BACKEND_URL = "" =>
       /\ fetches = <<>>
       /\ (handlerCalls = 1 /\ pc \in {"settled", "done"}) =>
            thrown = <<Error("Error", <<"STUDYOS_BACKEND_URL is not set">>)>>
  /\ (BACKEND_URL # "" /\ pc \in {"fetching", "text", "json", "settled"}) =>
       Len(fetches) = 1
  /\ (BACKEND_URL # "" /\ pc = "done" /\ handlerCalls = 1) => Len(fetches) = 1

C3_Witness ==
  /\ pc = "done" /\ BACKEND_URL # "" /\ res.rejected
  /\ Len(fetches) = 1
  /\ fetches[1].url = <<ConfiguredUrl, HandlerPath(toolName)>>

\* C4: when the collaborator answers with a status outside 200..299, the
\* invocation ends in the one error "Backend <path> failed: <status> <text>"
\* with the body as text (empty when the body cannot be read), produces no
\* tool result, and the dispatcher takes the next invocation.
C4_BackendRejected ==
  (pc = "done" /\ Rejected) =>
    /\ results = <<>>
    /\ errors =
         <<ToolError("execution-failure",
                     <<"Backend ", HandlerPath(toolName), " failed: ",
                       ToString(res.status), " ",
                       IF res.readable THEN res.body ELSE "">>,
                     {})>>
    /\ Len(served) < MaxInvocations => CanArrive

C4_Witness ==
  /\ pc = "done" /\ res.settled /\ res.status = 500 /\ res.body = "db error"
  /\ res.readable
  /\ Len(errors) = 1 /\ errors[1].message[4] = "500"
  /\ errors[1].message[6] = "db error"

\* C5: when the collaborator answers with a success status and a body that
\* does not parse as JSON, forwardToBackend throws nothing and returns
\* {ok: true}; the invocation ends in one tool result with that value as
\* structuredContent and a non-empty sequence of text content.
C5_MalformedBodyAcknowledged ==
  (Accepted /\ ~(res.readable /\ JSONParse(res.body).ok)) =>
    /\ pc \in {"settled", "done"} =>
         thrown = <<>> /\ returned = <<Acknowledgment>>
    /\ pc = "done" =>
         /\ errors = <<>> /\ Len(results) = 1
         /\ results[1].structuredContent = Acknowledgment
         /\ Len(results[1].content) >= 1
         /\ \A i \in 1..Len(results[1].content) :
              /\ results[1].content[i].type = "text"
              /\ results[1].content[i].text = HandlerText(toolName)

C5_Witness ==
  /\ pc = "done" /\ res.settled /\ res.status = 200 /\ res.body = "db error"
  /\ Len(results) = 1 /\ results[1].structuredContent = Acknowledgment

\* C6: when the fetch fails at the transport, what leaves forwardToBackend
\* is an Error of the gateway that carries the path, not the raw exception.
C6_TransportFailureReclassified ==
  res.rejected =>
    /\ Len(thrown) = 1
    /\ thrown[1].name = "Error"
    /\ \E i \in 1..Len(thrown[1].message) :
         thrown[1].message[i] = HandlerPath(toolName)

\* C7: requests in flight together share no mutable state: while a request
\* is inside transport.handleRequest, the server it connected is still
\* connected to that request's transport.
C7_RequestsShareNoMutableState ==
  \A r \in Requests : hpc[r] \in {"handle", "written"} => serverTransport = r

\* C8: for every registered tool, the manifest's schema has the same
\* properties, the same types and nullability and the same required set as
\* the schema that validates live invocations.
C8_ManifestMatchesLiveSchema ==
  vtool \in RegisteredTools =>
    SameSchema(manifest(vtool), JsonSchemaOf(InputSchema(vtool)))

\* C9, as claimed: in search_content arguments that are otherwise valid, an
\* explicit null for top_k or threshold is accepted and kept as null.
C9_NullPreserved ==
  (vtool = "search_content" /\ vout # NotParsed) =>
    \A f \in {"top_k", "threshold"} :
      (vraw[f] = Null /\ vout.issues \subseteq {"top_k", "threshold"}) =>
        vout.success /\ vout.data[f] = Null

\* C9, amended: in search_content arguments, an absent top_k or threshold
\* becomes the declared default (8, 0.3) and a number given is kept as
\* given; an explicit null is rejected with that field among the issues,
\* and no parsed arguments are produced, so null never becomes the default.
C9_DefaultOnlyWhenAbsent ==
  (vtool = "search_content" /\ vout # NotParsed) =>
    \A f \in {"top_k", "threshold"} :
      /\ (vraw[f] = Undefined /\ vout.success) =>
           vout.data[f] = IF f = "top_k" THEN Num("8") ELSE Num("0.3")
      /\ (vraw[f].type = "number" /\ vout.success) => vout.data[f] = vraw[f]
      /\ vraw[f] = Undefined => f \notin vout.issues
      /\ vraw[f] = Null =>
           /\ ~vout.success /\ f \in vout.issues
           /\ vout.data[f] = Undefined

C9_Witness ==
  /\ vtool = "search_content" /\ vout # NotParsed
  /\ vraw["query"].type = "string"
  /\ vraw["top_k"] = Null /\ vraw["threshold"] = Undefined
  /\ vout.issues = {"top_k"}

\* C10: a POST gets at most one HTTP response; the route of server.ts calls
\* the 500 fallback only while no headers have been sent, so it never
\* writes to a response that has begun and no exception leaves the route.
C10_AtMostOneResponse ==
  \A r \in Requests :
    /\ written[r] <= 1
    /\ fallbacks[r] <= 1
    /\ endpoint = "/mcp" =>
         /\ ~unhandled[r]
         /\ fallbacks[r] = 1 => (written[r] = 1 /\ hpc[r] = "caught")

C10_Witness ==
  \E r \in Requests :
    /\ endpoint = "/mcp" /\ hpc[r] = "caught"
    /\ headersSent[r] /\ written[r] = 1 /\ fallbacks[r] = 0

====
